---- MODULE Spec2Model ----
(***************************************************************************)
(* Model of resource_monitor.py: the BarGraph widget, the basic and the    *)
(* advanced layout, and the polling driver main().                         *)
(*                                                                         *)
(* The curses window is a matrix of glyphs.  A glyph is a string; a text   *)
(* is a sequence of glyphs.  The box-drawing characters of the source are  *)
(* written with ASCII names: Corner is the pointer corner, Full the solid  *)
(* block and Empty the shaded block.  Coordinates are those of the source  *)
(* (0-based, y before x).  Percentages are counted in tenths of a percent, *)
(* the resolution of psutil's readings, so that round() has work to do.    *)
(***************************************************************************)
EXTENDS Integers, Sequences, FiniteSets, TLC

VARIABLES cores, advanced_mode, pc, win, cpu_graph, ram_graph, cpu_graphs,
          graph, shown, calls, last, exit_code

vars == <<cores, advanced_mode, pc, win, cpu_graph, ram_graph, cpu_graphs,
          graph, shown, calls, last, exit_code>>

(***************************************************************************)
(* Bounds of the model.                                                    *)
(***************************************************************************)
MaxCores == 3
MaxLayoutCores == 102
MemTotal == 3
TermCols == 70

(***************************************************************************)
(* Constants of the program.                                               *)
(***************************************************************************)
MaxValue == 100
BlockSize == 5
BarWidth == 19
EraseWidth == 25

Corner == "CORNER"
Full == "FULL"
Empty == "EMPTY"
Blank == " "

None == [none |-> TRUE]

(***************************************************************************)
(* Python's text operations.                                               *)
(***************************************************************************)
Rep(glyph, n) == [i \in 1..n |-> glyph]

Digit(d) == <<"0", "1", "2", "3", "4", "5", "6", "7", "8", "9">>[d + 1]

RECURSIVE Str(_)
Str(n) == IF n < 10 THEN <<Digit(n)>> ELSE Str(n \div 10) \o <<Digit(n % 10)>>

PadLeftAligned(text, width) == text \o Rep(Blank, width - Len(text))

round(value) ==
    LET q == value \div 10
        r == value % 10
    IN  IF r < 5 THEN q
        ELSE IF r > 5 THEN q + 1
        ELSE IF q % 2 = 0 THEN q ELSE q + 1

(***************************************************************************)
(* The curses window.                                                      *)
(***************************************************************************)
NewWindow(lines, columns) == [y \in 1..lines |-> Rep(Blank, columns)]

Cell(w, y, x) == w[y + 1][x + 1]

AddStrOp(y, x, s) == [f |-> "addstr", y |-> y, x |-> x, s |-> s]

RefreshOp == [f |-> "refresh", y |-> 0, x |-> 0, s |-> <<>>]

insstr(w, y, x, s) ==
    [w EXCEPT ![y + 1] = SubSeq(SubSeq(@, 1, x) \o s \o SubSeq(@, x + 1, Len(@)),
                                1, Len(@))]

addstr(w, y, x, s) ==
    [w EXCEPT ![y + 1] = SubSeq(@, 1, x) \o s \o SubSeq(@, x + Len(s) + 1, Len(@))]

hline(y, x, n) == <<AddStrOp(y, x, Rep("HLINE", n))>>

vline(y, x, n) == [i \in 1..n |-> AddStrOp(y + i - 1, x, <<"VLINE">>)]

rectangle(uly, ulx, lry, lrx) ==
    vline(uly + 1, ulx, lry - uly - 1)
    \o hline(uly, ulx + 1, lrx - ulx - 1)
    \o hline(lry, ulx + 1, lrx - ulx - 1)
    \o vline(uly + 1, lrx, lry - uly - 1)
    \o << AddStrOp(uly, ulx, <<"ULCORNER">>),
          AddStrOp(uly, lrx, <<"URCORNER">>),
          AddStrOp(lry, lrx, <<"LRCORNER">>),
          AddStrOp(lry, ulx, <<"LLCORNER">>) >>

ApplyOp(w, op) ==
    IF op.f = "addstr" THEN addstr(w, op.y, op.x, op.s) ELSE w

\* The calls are applied in order.  The window left by the first half is
\* evaluated (its length is read) before the second half is applied to it.
RECURSIVE ApplyOps(_, _)
ApplyOps(w, ops) ==
    IF ops = <<>> THEN w
    ELSE IF Len(ops) = 1 THEN ApplyOp(w, ops[1])
    ELSE LET half == Len(ops) \div 2
             mid  == ApplyOps(w, SubSeq(ops, 1, half))
         IN  IF Len(mid) = Len(w)
               THEN ApplyOps(mid, SubSeq(ops, half + 1, Len(ops)))
               ELSE mid

(***************************************************************************)
(* class BarGraph                                                          *)
(***************************************************************************)
BarGraph(pos_y, pos_x, label) ==
    [pointer_y |-> pos_y,
     pointer_x |-> pos_x + Len(label) + 1,
     bar_y     |-> pos_y + 1,
     bar_x     |-> pos_x + Len(label) + 2,
     pos_y |-> pos_y, pos_x |-> pos_x, label |-> label]

BarGraph_init(pos_y, pos_x, label) ==
    LET self == BarGraph(pos_y, pos_x, label)
    IN  << AddStrOp(self.pointer_y, self.pointer_x, <<Corner, "0", "%">>),
           AddStrOp(self.bar_y, pos_x,
                    label \o <<" ", "|">> \o Rep(Empty, BarWidth) \o <<"|">>),
           AddStrOp(self.bar_y + 1, self.bar_x - 1, <<"0">>),
           AddStrOp(self.bar_y + 1, self.bar_x + 18, <<"1", "0", "0">>),
           RefreshOp >>

ValueNotNegative(value) == 0 <= value

ValueInRange(value) == 0 <= value /\ value <= 10 * MaxValue

BlocksRoundedUp(value) == (value + BlockSize - 1) \div BlockSize

Blocks(value) == value \div BlockSize

EraseFirstPointer(self) ==
    AddStrOp(self.pointer_y, self.pointer_x, Rep(Blank, 3))

ErasePointer(self) ==
    AddStrOp(self.pointer_y, self.pointer_x, Rep(Blank, EraseWidth))

DrawPointerFromBarStart(self, value, blocks) ==
    AddStrOp(self.pointer_y, self.bar_x + blocks,
             <<Corner>> \o Str(value) \o <<"%">>)

DrawPointer(self, value, blocks) ==
    AddStrOp(self.pointer_y, self.pointer_x + blocks,
             <<Corner>> \o Str(value) \o <<"%">>)

DrawBar(self, value, blocks) ==
    IF value # MaxValue
      THEN AddStrOp(self.bar_y, self.bar_x,
                    Rep(Full, blocks) \o Rep(Empty, BarWidth - blocks))
      ELSE AddStrOp(self.bar_y, self.bar_x, Rep(Full, blocks - 1))

BarGraph_call(self, raw) ==
    IF ~ValueInRange(raw)
      THEN [error |-> "AssertionError", ops |-> <<>>]
      ELSE LET value  == round(raw)
               blocks == Blocks(value)
           IN  [error |-> "",
                ops   |-> << ErasePointer(self),
                             DrawPointer(self, value, blocks),
                             DrawBar(self, value, blocks),
                             RefreshOp >>]

(***************************************************************************)
(* Basic and advanced layout.                                              *)
(***************************************************************************)
CpuLabel(cpu_id) == <<"C", "P", "U">> \o PadLeftAligned(Str(cpu_id), 2)

BasicArgs ==
    << <<1, 3, <<"C", "P", "U">> >>, <<1, 34, <<"R", "A", "M">> >> >>

BasicFrame == [uly |-> 0, ulx |-> 0, lry |-> 4, lrx |-> 63]

basic_init_ops ==
    rectangle(BasicFrame.uly, BasicFrame.ulx, BasicFrame.lry, BasicFrame.lrx)
    \o << AddStrOp(0, 2, <<" ", "B", "a", "s", "i", "c", " ">>) >>
    \o BarGraph_init(BasicArgs[1][1], BasicArgs[1][2], BasicArgs[1][3])
    \o BarGraph_init(BasicArgs[2][1], BasicArgs[2][2], BasicArgs[2][3])

Rows(cpu_count) == cpu_count \div 2

RECURSIVE AdvancedArgsSidesSwapped(_, _, _)
AdvancedArgsSidesSwapped(row, rows, cpu_id) ==
    IF row >= rows THEN <<>>
    ELSE LET row_y == 3 * row
         IN  << <<row_y + 6, 32, CpuLabel(cpu_id)>>,
                <<row_y + 6, 1, CpuLabel(cpu_id + 1)>> >>
             \o AdvancedArgsSidesSwapped(row + 1, rows, cpu_id + 2)

RECURSIVE AdvancedArgs(_, _, _)
AdvancedArgs(row, rows, cpu_id) ==
    IF row >= rows THEN <<>>
    ELSE LET row_y == 3 * row
         IN  << <<row_y + 6, 1, CpuLabel(cpu_id)>>,
                <<row_y + 6, 32, CpuLabel(cpu_id + 1)>> >>
             \o AdvancedArgs(row + 1, rows, cpu_id + 2)

RECURSIVE InitAll(_)
InitAll(args) ==
    IF args = <<>> THEN <<>>
    ELSE IF Len(args) = 1
      THEN BarGraph_init(args[1][1], args[1][2], args[1][3])
    ELSE LET half == Len(args) \div 2
         IN  InitAll(SubSeq(args, 1, half))
             \o InitAll(SubSeq(args, half + 1, Len(args)))

AdvancedFrame(rows) == [uly |-> 5, ulx |-> 0, lry |-> 6 + 3 * rows, lrx |-> 63]

advanced_init_ops(cpu_count) ==
    LET rows  == Rows(cpu_count)
        frame == AdvancedFrame(rows)
    IN  rectangle(frame.uly, frame.ulx, frame.lry, frame.lrx)
        \o << AddStrOp(5, 2, <<" ", "A", "d", "v", "a", "n", "c", "e", "d", " ">>) >>
        \o InitAll(AdvancedArgs(0, rows, 1))

advanced_init_graphs(cpu_count) ==
    LET args == AdvancedArgs(0, Rows(cpu_count), 1)
    IN  [i \in 1..Len(args) |-> BarGraph(args[i][1], args[i][2], args[i][3])]

(***************************************************************************)
(* Readings of psutil.                                                     *)
(***************************************************************************)
SampleValues == {0, 125, 1000}

RoundRatio(n, d) ==
    LET q == n \div d
        r == n % d
    IN  IF 2 * r < d THEN q
        ELSE IF 2 * r > d THEN q + 1
        ELSE IF q % 2 = 0 THEN q ELSE q + 1

ram_usage(total, available) == RoundRatio((total - available) * 100, total)

(***************************************************************************)
(* The driver: main() under curses.wrapper.                                *)
(***************************************************************************)
TermLines(cpu_count) == 7 + 3 * (cpu_count \div 2)

Last(op, value, status, repeat) ==
    [op |-> op, value |-> value, status |-> status, repeat |-> repeat]

Init ==
    /\ cores \in 1..MaxCores
    /\ advanced_mode \in BOOLEAN
    /\ pc = "basic_init"
    /\ win = NewWindow(TermLines(cores), TermCols)
    /\ cpu_graph = None
    /\ ram_graph = None
    /\ cpu_graphs = <<>>
    /\ graph = None
    /\ shown = 0
    /\ calls = <<>>
    /\ last = Last("start", 0, "ok", FALSE)
    /\ exit_code = -1

basic_init ==
    /\ pc = "basic_init"
    /\ calls' = basic_init_ops
    /\ win' = ApplyOps(win, basic_init_ops)
    /\ cpu_graph' = BarGraph(BasicArgs[1][1], BasicArgs[1][2], BasicArgs[1][3])
    /\ ram_graph' = BarGraph(BasicArgs[2][1], BasicArgs[2][2], BasicArgs[2][3])
    /\ last' = Last("basic_init", 0, "ok", FALSE)
    /\ pc' = IF advanced_mode THEN "advanced_init" ELSE "basic_update"
    /\ UNCHANGED <<cores, advanced_mode, cpu_graphs, graph, shown, exit_code>>

advanced_init ==
    /\ pc = "advanced_init"
    /\ calls' = advanced_init_ops(cores)
    /\ win' = ApplyOps(win, advanced_init_ops(cores))
    /\ cpu_graphs' = advanced_init_graphs(cores)
    /\ last' = Last("advanced_init", 0, "ok", FALSE)
    /\ pc' = "basic_update"
    /\ UNCHANGED <<cores, advanced_mode, cpu_graph, ram_graph, graph, shown,
                   exit_code>>

\* An exception that main() does not catch leaves curses.wrapper and ends the
\* program with a traceback and exit status 1.
Raise(op, value, error, ops) ==
    /\ calls' = ops
    /\ win' = ApplyOps(win, ops)
    /\ last' = Last(op, value, error, FALSE)
    /\ pc' = "exited"
    /\ exit_code' = 1

basic_update_calls(cpu_usage, total, available) ==
    LET cpu == BarGraph_call(cpu_graph, cpu_usage)
        ram == BarGraph_call(ram_graph, 10 * ram_usage(total, available))
    IN  IF cpu.error # "" THEN cpu
        ELSE [error |-> ram.error, ops |-> cpu.ops \o ram.ops]

basic_update ==
    /\ pc = "basic_update"
    /\ \E cpu_usage \in SampleValues, available \in 0..MemTotal :
          LET r == basic_update_calls(cpu_usage, MemTotal, available)
          IN  IF r.error # ""
                THEN Raise("basic_update", 0, r.error, r.ops)
                ELSE /\ calls' = r.ops
                     /\ win' = ApplyOps(win, r.ops)
                     /\ last' = Last("basic_update", 0, "ok", FALSE)
                     /\ pc' = IF advanced_mode THEN "advanced_update"
                                               ELSE "basic_update"
                     /\ UNCHANGED exit_code
    /\ UNCHANGED <<cores, advanced_mode, cpu_graph, ram_graph, cpu_graphs,
                   graph, shown>>

LengthsUnchecked(graphs, usage_per_cpu) == TRUE

LengthsMatch(graphs, usage_per_cpu) == Len(graphs) = Len(usage_per_cpu)

RECURSIVE ZipCalls(_, _)
ZipCalls(graphs, usage_per_cpu) ==
    IF graphs = <<>> \/ usage_per_cpu = <<>> THEN [error |-> "", ops |-> <<>>]
    ELSE LET first == BarGraph_call(Head(graphs), Head(usage_per_cpu))
             rest  == ZipCalls(Tail(graphs), Tail(usage_per_cpu))
         IN  IF first.error # "" THEN first
             ELSE [error |-> rest.error, ops |-> first.ops \o rest.ops]

advanced_update_calls(graphs, usage_per_cpu) ==
    IF ~LengthsMatch(graphs, usage_per_cpu)
      THEN [error |-> "AssertionError", ops |-> <<>>]
      ELSE ZipCalls(graphs, usage_per_cpu)

\* psutil reports one reading for each CPU that is online when it is asked,
\* which is cpu_count() unless CPUs went on or off line since advanced_init.
\* last.value records the length of the sample.
advanced_update ==
    /\ pc = "advanced_update"
    /\ \E online \in 1..MaxCores :
       \E usage_per_cpu \in [1..online -> SampleValues] :
          LET r == advanced_update_calls(cpu_graphs, usage_per_cpu)
          IN  IF r.error # ""
                THEN Raise("advanced_update", online, r.error, r.ops)
                ELSE /\ calls' = r.ops
                     /\ win' = ApplyOps(win, r.ops)
                     /\ last' = Last("advanced_update", online, "ok", FALSE)
                     /\ pc' = "basic_update"
                     /\ UNCHANGED exit_code
    /\ UNCHANGED <<cores, advanced_mode, cpu_graph, ram_graph, cpu_graphs,
                   graph, shown>>

InsideTry(position) == position # "basic_init"

\* Ctrl-C while the driver is at position pc.  Inside the try block the
\* handler calls exit(0); before it the exception leaves main() uncaught and
\* the interpreter ends with a traceback and the status of SIGINT.  The
\* interrupted call is taken not to have drawn: the updates spend their time
\* in the one-second sample that precedes their drawing.
KeyboardInterrupt ==
    /\ pc \in {"basic_init", "advanced_init", "basic_update", "advanced_update"}
    /\ IF InsideTry(pc)
         THEN /\ last' = Last("KeyboardInterrupt", 0, "SystemExit", FALSE)
              /\ exit_code' = 0
         ELSE /\ last' = Last("KeyboardInterrupt", 0, "KeyboardInterrupt", FALSE)
              /\ exit_code' = 130
    /\ pc' = "exited"
    /\ calls' = <<>>
    /\ UNCHANGED <<cores, advanced_mode, win, cpu_graph, ram_graph, cpu_graphs,
                   graph, shown>>

Next ==
    \/ basic_init
    \/ advanced_init
    \/ basic_update
    \/ advanced_update
    \/ KeyboardInterrupt

Spec == Init /\ [][Next]_vars

(***************************************************************************)
(* The start of main() alone, on machines of up to MaxLayoutCores cores:   *)
(* the two layouts are drawn and the polling loop is not entered.          *)
(***************************************************************************)
InitLayout ==
    /\ cores \in 1..MaxLayoutCores
    /\ advanced_mode \in BOOLEAN
    /\ pc = "basic_init"
    /\ win = NewWindow(TermLines(cores), TermCols)
    /\ cpu_graph = None
    /\ ram_graph = None
    /\ cpu_graphs = <<>>
    /\ graph = None
    /\ shown = 0
    /\ calls = <<>>
    /\ last = Last("start", 0, "ok", FALSE)
    /\ exit_code = -1

NextLayout ==
    \/ basic_init
    \/ advanced_init

SpecLayout == InitLayout /\ [][NextLayout]_vars

(***************************************************************************)
(* One BarGraph on an empty window, constructed with the arguments the     *)
(* layouts use and then called with any sequence of values, valid or not.  *)
(***************************************************************************)
Placements ==
    {BasicArgs[i] : i \in 1..Len(BasicArgs)}
    \cup {AdvancedArgs(0, Rows(MaxCores), 1)[i] : i \in 1..2 * Rows(MaxCores)}

CallValues ==
    {10 * v : v \in -1..MaxValue + 1}
    \cup {-1, 1, 5, 15, 25, 24, 26, 45, 994, 995, 996, 999, 1001}

InitGraph ==
    /\ cores = MaxCores
    /\ advanced_mode = FALSE
    /\ pc = "new"
    /\ win = NewWindow(TermLines(cores), TermCols)
    /\ cpu_graph = None
    /\ ram_graph = None
    /\ cpu_graphs = <<>>
    /\ graph = None
    /\ shown = 0
    /\ calls = <<>>
    /\ last = Last("start", 0, "ok", FALSE)
    /\ exit_code = -1

graph_new ==
    /\ pc = "new"
    /\ \E args \in Placements :
          /\ graph' = BarGraph(args[1], args[2], args[3])
          /\ calls' = BarGraph_init(args[1], args[2], args[3])
          /\ win' = ApplyOps(win, BarGraph_init(args[1], args[2], args[3]))
    /\ shown' = 0
    /\ last' = Last("init", 0, "ok", FALSE)
    /\ pc' = "ready"
    /\ UNCHANGED <<cores, advanced_mode, cpu_graph, ram_graph, cpu_graphs,
                   exit_code>>

graph_call ==
    /\ pc = "ready"
    /\ \E raw \in CallValues :
          LET r == BarGraph_call(graph, raw)
          IN  /\ calls' = r.ops
              /\ win' = ApplyOps(win, r.ops)
              /\ IF r.error # ""
                   THEN /\ last' = Last("call", raw, r.error, FALSE)
                        /\ UNCHANGED shown
                   ELSE /\ last' = Last("call", raw, "ok",
                                        /\ last.op = "call"
                                        /\ last.status = "ok"
                                        /\ last.value = raw)
                        /\ shown' = raw
    /\ UNCHANGED <<cores, advanced_mode, pc, cpu_graph, ram_graph, cpu_graphs,
                   graph, exit_code>>

NextGraph ==
    \/ graph_new
    \/ graph_call

SpecGraph == InitGraph /\ [][NextGraph]_vars

(***************************************************************************)
(* Reading the window.                                                     *)
(***************************************************************************)
RowCells(w, y, x, n) == SubSeq(w[y + 1], x + 1, x + n)

Min(a, b) == IF a < b THEN a ELSE b

\* The largest b with 5 * b <= v: floor(v / 5).
FloorFifth(v) == CHOOSE b \in 0..v : 5 * b <= v /\ v < 5 * (b + 1)

CallSucceeded == pc = "ready" /\ last.op = "call" /\ last.status = "ok"

\* The columns of the pointer row of a graph that hold the corner glyph.
PointerColumns(w, g) ==
    {x \in 0..Len(w[g.pointer_y + 1]) - 1 : Cell(w, g.pointer_y, x) = Corner}

GraphWidth(g) == 26 + Len(g.label)

\* The pointer row and the bar row of a graph that shows the integer v,
\* written out cell by cell over the whole width of the graph.
PointerRowFor(g, v) ==
    LET text == Rep(Blank, Len(g.label) + 1 + FloorFifth(v))
                \o <<Corner>> \o Str(v) \o <<"%">>
    IN  text \o Rep(Blank, GraphWidth(g) - Len(text))

BarRowFor(g, v) ==
    LET n    == IF v = 100 THEN 19 ELSE FloorFifth(v)
        text == g.label \o <<" ", "|">> \o Rep(Full, n) \o Rep(Empty, 19 - n)
                \o <<"|">>
    IN  text \o Rep(Blank, GraphWidth(g) - Len(text))

(***************************************************************************)
(* The claims.                                                             *)
(***************************************************************************)

\* C1: after an update with an integer v in 0..100, blocks(v) is floor(v/5)
\* and the 19 cells of the bar hold min(blocks(v), 19) filled cells followed
\* by empty cells when v < 100, and 19 filled cells when v = 100.
C1_BarShowsBlocks ==
    (CallSucceeded /\ last.value % 10 = 0) =>
        LET v == last.value \div 10
            n == IF v < 100 THEN Min(FloorFifth(v), 19) ELSE FloorFifth(100) - 1
        IN  /\ Blocks(v) = FloorFifth(v)
            /\ RowCells(win, graph.bar_y, graph.bar_x, 19)
                 = Rep(Full, n) \o Rep(Empty, 19 - n)

C1_Witness ==
    /\ CallSucceeded
    /\ last.value = 570
    /\ RowCells(win, graph.bar_y, graph.bar_x, 12) = Rep(Full, 11) \o <<Empty>>

\* C2: an update with a value outside 0..100 fails the precondition check:
\* it changes no cell of the window, makes no call on the window (no write
\* and no refresh) and raises AssertionError.
C2_OutOfRangeRejected ==
    [][(last'.op = "call" /\ (last'.value < 0 \/ last'.value > 1000)) =>
          /\ last'.status = "AssertionError"
          /\ win' = win
          /\ calls' = <<>>]_vars

C2_Witness ==
    /\ pc = "ready"
    /\ last.op = "call"
    /\ last.value = 1010
    /\ last.status = "AssertionError"
    /\ shown = 1000

\* C3: an update that repeats the value of the update just before it leaves
\* every cell of the window as the first one left it.
C3_UpdateIdempotent ==
    [][(last'.op = "call" /\ last'.status = "ok" /\ last'.repeat) =>
          win' = win]_vars

C3_Witness == CallSucceeded /\ last.repeat /\ last.value = 1000

\* C4 as claimed: after an update the pointer glyph starts at the column
\* whose offset from the bar-start column bar_x is floor(v/5), v being the
\* rounded value.
C4_PointerOffsetFromBarStart ==
    CallSucceeded =>
        PointerColumns(win, graph) = {graph.bar_x + FloorFifth(round(last.value))}

\* C4 as amended: after an update the pointer glyph, the corner followed by
\* v and '%', starts at offset floor(v/5) from pointer_x, the column of the
\* bar's opening bracket, which is offset floor(v/5) - 1 from bar_x.
C4_PointerOffsetFromBracket ==
    CallSucceeded =>
        LET v == round(last.value)
            x == graph.bar_x + FloorFifth(v) - 1
        IN  /\ graph.pointer_x = graph.bar_x - 1
            /\ Cell(win, graph.bar_y, graph.pointer_x) = "|"
            /\ PointerColumns(win, graph) = {x}
            /\ RowCells(win, graph.pointer_y, x, Len(Str(v)) + 2)
                 = <<Corner>> \o Str(v) \o <<"%">>

C4_Witness ==
    /\ CallSucceeded
    /\ last.value = 500
    /\ Cell(win, graph.pointer_y, graph.bar_x + 9) = Corner

\* C5: advanced_update with a per-core sample whose length differs from the
\* number of graphs raises AssertionError before any value is pushed: the
\* window is unchanged and no call is made on it.
C5_LengthMismatchFails ==
    [][(last'.op = "advanced_update" /\ last'.value # Len(cpu_graphs)) =>
          /\ last'.status = "AssertionError"
          /\ pc' = "exited"
          /\ win' = win
          /\ calls' = <<>>]_vars

C5_Witness ==
    /\ pc = "exited"
    /\ last.op = "advanced_update"
    /\ last.status = "AssertionError"
    /\ Len(cpu_graphs) = 2
    /\ last.value = 3
    /\ cores = 3

\* C6: for every core count C >= 1 advanced_init draws a frame for
\* N = ceil(C/2) rows and creates 2 * N graphs.
C6_RowsRoundedUp ==
    last.op = "advanced_init" =>
        LET N == (cores + 1) \div 2
        IN  /\ Len(cpu_graphs) = 2 * N
            /\ Cell(win, 6 + 3 * N, 0) = "LLCORNER"

\* C7: for every even core count C advanced_init returns C graphs, the graph
\* at 0-based index i labelled CPU(i+1), in row floor(i/2) of the advanced
\* frame, on the left when i is even and on the right when i is odd.
C7_RowMajorOrder ==
    (last.op = "advanced_init" /\ cores % 2 = 0) =>
        /\ Len(cpu_graphs) = cores
        /\ \A i \in 0..cores - 1 :
              LET g    == cpu_graphs[i + 1]
                  name == <<"C", "P", "U">> \o Str(i + 1)
              IN  /\ SubSeq(g.label, 1, Len(name)) = name
                  /\ \A k \in Len(name) + 1..Len(g.label) : g.label[k] = Blank
                  /\ g.pos_y = 6 + 3 * (i \div 2)
                  /\ g.pos_x = IF i % 2 = 0 THEN 1 ELSE 32
                  /\ RowCells(win, g.pos_y + 1, g.pos_x, Len(name)) = name

C7_Witness ==
    /\ last.op = "advanced_init"
    /\ cores = 8
    /\ Len(cpu_graphs) = 8
    /\ RowCells(win, 16, 32, 4) = <<"C", "P", "U", "8">>

\* C8: a user interrupt at any point of the driver ends the program with
\* exit code 0 and not with an error, and the program ends only by an
\* interrupt or a failure.
C8_InterruptExitsCleanly ==
    /\ (pc = "exited" /\ last.op = "KeyboardInterrupt") =>
          (exit_code = 0 /\ last.status = "SystemExit")
    /\ pc = "exited" =>
          (last.op = "KeyboardInterrupt" \/ last.status = "AssertionError")

\* C9: once a graph is constructed, and after any sequence of updates, its
\* pointer row and its bar row are those of the last value passed to a
\* successful update (0 before the first one), with nothing left of an
\* earlier pointer or bar.
C9_RowsShowLastValue ==
    pc = "ready" =>
        /\ RowCells(win, graph.pos_y, graph.pos_x, GraphWidth(graph))
             = PointerRowFor(graph, round(shown))
        /\ RowCells(win, graph.pos_y + 1, graph.pos_x, GraphWidth(graph))
             = BarRowFor(graph, round(shown))

C9_Witness ==
    /\ CallSucceeded
    /\ shown = 70
    /\ Cell(win, graph.pos_y, graph.bar_x) = Corner
    /\ Cell(win, graph.pos_y, graph.bar_x + 20) = Blank

\* C10: every cell a BarGraph writes, when constructed or updated, lies in
\* its rectangle of height 3 and width 26 + len(label); the rectangles of a
\* layout are pairwise disjoint and strictly inside the layout's frame, and
\* the two frames do not overlap.
Rect(g) ==
    [top |-> g.pos_y, left |-> g.pos_x,
     bottom |-> g.pos_y + 2, right |-> g.pos_x + GraphWidth(g) - 1]

OpInside(op, r) ==
    op.f = "addstr" =>
        /\ r.top <= op.y /\ op.y <= r.bottom
        /\ r.left <= op.x /\ op.x + Len(op.s) - 1 <= r.right

WritesInside(g) ==
    /\ \A k \in 1..4 : OpInside(BarGraph_init(g.pos_y, g.pos_x, g.label)[k], Rect(g))
    /\ \A v \in SampleValues, k \in 1..3 : OpInside(BarGraph_call(g, v).ops[k], Rect(g))

Disjoint(r1, r2) ==
    \/ r1.bottom < r2.top \/ r2.bottom < r1.top
    \/ r1.right < r2.left \/ r2.right < r1.left

StrictlyInside(r, frame) ==
    /\ frame.uly < r.top /\ r.bottom < frame.lry
    /\ frame.ulx < r.left /\ r.right < frame.lrx

C10_GraphsStayInTheirRectangles ==
    /\ BasicFrame.lry < AdvancedFrame(Rows(cores)).uly
    /\ last.op \in {"basic_init", "advanced_init"} =>
          /\ WritesInside(cpu_graph) /\ WritesInside(ram_graph)
          /\ Disjoint(Rect(cpu_graph), Rect(ram_graph))
          /\ StrictlyInside(Rect(cpu_graph), BasicFrame)
          /\ StrictlyInside(Rect(ram_graph), BasicFrame)
    /\ last.op = "advanced_init" =>
          /\ \A i \in 1..Len(cpu_graphs) :
                /\ WritesInside(cpu_graphs[i])
                /\ StrictlyInside(Rect(cpu_graphs[i]), AdvancedFrame(Rows(cores)))
          /\ \A i, j \in 1..Len(cpu_graphs) :
                i < j => Disjoint(Rect(cpu_graphs[i]), Rect(cpu_graphs[j]))

====
